---------------------------- MODULE Spec2Model ----------------------------
(* A model of the Roo Code web bridge: src/src/server/WebServer.ts.        *)
(* The WebServer object's fields are the state; every public method, every *)
(* event callback it registers (listen, error, connection, message, close) *)
(* and every await continuation is one action.                             *)
EXTENDS Integers, Sequences, FiniteSets, TLC

(***************************************************************************)
(* Bounds of the model.                                                    *)
(***************************************************************************)
MaxServers == 3
MaxConns == 2
MaxStops == 2
MaxTasks == 2
MaxCredLen == 3
MaxPwLen == 1
MaxSockets == 2

DEFAULT_WEB_SERVER_PORT == 30000
MaxTcpPort == 65535

ServerIds == 1..MaxServers
Conns == 1..MaxConns
StopIds == 1..MaxStops
TaskIds == 1..MaxTasks

VARIABLES
    port,                  \* this.port
    password,              \* this.password, a sequence of character codes
    messageHandler,        \* this.messageHandler
    toolbarActionHandler,  \* this.toolbarActionHandler
    httpServer,            \* this.httpServer: 0 is null, else a server id
    wss,                   \* this.wss: 0 is null, else a server id
    clients,               \* this.clients
    servers,               \* the http.Server / WebSocketServer pairs start() created
    conn,                  \* the WebSocket objects of the browser connections
    stops,                 \* the stop() invocations and where each one waits
    req,                   \* the HTTP request the listener is being handed
    res,                   \* the response written for it
    tasks,                 \* message callbacks suspended in an await
    lastFrame,             \* what the latest message callback did before suspending
    lastFailure,           \* the connection of the latest caught failure, 0 if none
    lastBroadcast,         \* the writes of the latest broadcastToClients call
    ws,                    \* the bootstrap script's ws: 0 is null, else a socket id
    reconnectTimer,        \* the bootstrap script's reconnectTimer
    sock,                  \* the browser's WebSocket objects: their readyState
    statusEl,              \* the text of the page's element roo-ws-status
    rooWebSocket,          \* window.__rooWebSocket
    lastSend,              \* the latest send of the page: who sent what on which socket
    vscodeState,           \* localStorage's item "vscodeState"
    lastState              \* the latest getState or setState call and what it returned

vars == <<port, password, messageHandler, toolbarActionHandler, httpServer, wss,
          clients, servers, conn, stops, req, res, tasks, lastFrame, lastFailure,
          lastBroadcast, ws, reconnectTimer, sock, statusEl, rooWebSocket, lastSend,
          vscodeState, lastState>>

\* The state of the page in the browser.
pageVars == <<ws, reconnectTimer, sock, statusEl, rooWebSocket, lastSend, vscodeState,
              lastState>>
socketVars == <<ws, reconnectTimer, sock, statusEl, rooWebSocket, lastSend>>
storageVars == <<vscodeState, lastState>>
serverVars == <<port, password, messageHandler, toolbarActionHandler, httpServer, wss,
                clients, servers, conn, stops, req, res, tasks, lastFrame, lastFailure,
                lastBroadcast>>

configVars == <<port, password>>
handlerVars == <<messageHandler, toolbarActionHandler>>
lifecycleVars == <<httpServer, wss, servers, stops>>
httpVars == <<req, res>>
relayVars == <<tasks, lastFrame, lastFailure>>

(***************************************************************************)
(* Strings are sequences of character codes.                               *)
(***************************************************************************)
EmptyString == <<>>
\* The value of an argument that is null or undefined.
Undefined == <<-1>>

(***************************************************************************)
(* Objects: the http.Server and WebSocketServer a start() call creates,    *)
(* a WebSocket, a stop() invocation.                                        *)
(***************************************************************************)
NoServerObject ==
    [state |-> "none", port |-> 0, wss |-> "none", start |-> "none", err |-> "none"]

\* notified: the instance has terminated the socket or has been delivered
\* its error event.
NoConn == [state |-> "none", srv |-> 0, guarded |-> FALSE, notified |-> FALSE]

IdleStop == [pc |-> "idle", w |-> 0, h |-> 0, err |-> FALSE]

Finished == {"idle", "resolved", "rejected"}

\* http.Server.listening
Listening(s) == servers[s].state = "listening"

\* WebSocket.readyState === WebSocket.OPEN
IsOpen(c) == conn[c].state = "open"

(***************************************************************************)
(* getPort, configure, setMessageHandler, setToolbarActionHandler,         *)
(* isRunning                                                               *)
(***************************************************************************)
GetPort == port

ConfiguredPort(p) == IF p > 0 THEN p ELSE DEFAULT_WEB_SERVER_PORT

Configure(p, pw) ==
    /\ port' = ConfiguredPort(p)
    /\ password' = IF pw = Undefined THEN EmptyString ELSE pw
    /\ UNCHANGED <<handlerVars, lifecycleVars, clients, conn, httpVars, relayVars,
                   lastBroadcast>>
    /\ UNCHANGED pageVars

SetMessageHandler(h) ==
    /\ messageHandler' = h
    /\ UNCHANGED <<configVars, toolbarActionHandler, lifecycleVars, clients, conn,
                   httpVars, relayVars, lastBroadcast>>
    /\ UNCHANGED pageVars

SetToolbarActionHandler(h) ==
    /\ toolbarActionHandler' = h
    /\ UNCHANGED <<configVars, messageHandler, lifecycleVars, clients, conn,
                   httpVars, relayVars, lastBroadcast>>
    /\ UNCHANGED pageVars

IsRunning == httpServer # 0 /\ Listening(httpServer)

(***************************************************************************)
(* start()                                                                 *)
(***************************************************************************)
\* The id of the next server object: the ids are handed out in order.
FreshServer(s) ==
    /\ servers[s].state = "none"
    /\ \A t \in ServerIds : t < s => servers[t].state # "none"

\* net.Server.listen throws ERR_SOCKET_BAD_PORT for a port outside 0..65535.
ValidPort(p) == p >= 0 /\ p <= MaxTcpPort

ListenPortDefault(p) == DEFAULT_WEB_SERVER_PORT

\* The port start() passes to listen: this.port.
ListenPort(p) == p

\* Lines 103-158 up to the await: the server and the WebSocket layer are
\* created and stored, the connection callback is attached, listen is called.
StartCreate ==
    \E s \in ServerIds :
        /\ FreshServer(s)
        /\ servers' = [servers EXCEPT ![s] =
               IF ValidPort(ListenPort(port))
               THEN [state |-> "binding", port |-> ListenPort(port), wss |-> "running",
                     start |-> "pending", err |-> "none"]
               ELSE [state |-> "failed", port |-> ListenPort(port), wss |-> "running",
                     start |-> "rejected", err |-> "ERR_SOCKET_BAD_PORT"]]
        /\ httpServer' = s
        /\ wss' = s
        /\ UNCHANGED <<configVars, handlerVars, clients, conn, stops, httpVars,
                       relayVars, lastBroadcast, pageVars>>

StartUnguarded == StartCreate

Start ==
    \/ /\ IsRunning
       /\ UNCHANGED vars
    \/ /\ ~IsRunning
       /\ StartCreate

\* No other server of this process holds the port.
PortFree(s) ==
    \A t \in ServerIds : t # s /\ Listening(t) => servers[t].port # servers[s].port

\* The binds are made in the order of the listen calls: a later server
\* has not left its bind behind when an earlier one binds.
BindsInOrder(s) ==
    \A t \in ServerIds : t > s => servers[t].state \in {"none", "binding"}

\* The listen callback of line 148: the socket is bound, start() resolves.
ListenSucceeds(s) ==
    /\ servers[s].state = "binding"
    /\ PortFree(s)
    /\ BindsInOrder(s)
    /\ servers' = [servers EXCEPT ![s].state = "listening", ![s].start = "resolved"]
    /\ UNCHANGED <<configVars, handlerVars, httpServer, wss, clients, conn, stops,
                   httpVars, relayVars, lastBroadcast>>
    /\ UNCHANGED pageVars

\* The error callback of line 154: the bind failed (the port is in use by
\* this or another process, or forbidden), start() rejects with the error.
ListenFails(s) ==
    /\ servers[s].state = "binding"
    /\ servers' = [servers EXCEPT ![s].state = "failed", ![s].start = "rejected",
                                  ![s].err = "EADDRINUSE"]
    /\ UNCHANGED <<configVars, handlerVars, httpServer, wss, clients, conn, stops,
                   httpVars, relayVars, lastBroadcast>>
    /\ UNCHANGED pageVars

(***************************************************************************)
(* The connection callbacks of start(): connection, close, error           *)
(***************************************************************************)
\* The ids of the WebSocket objects are handed out in order.
FreshConn(c) ==
    /\ conn[c].state = "none"
    /\ \A d \in Conns : d < c => conn[d].state # "none"

\* WebSocket.terminate(): the socket is destroyed, the close event follows.
Terminated(w) ==
    IF w.state \in {"open", "closing"}
    THEN [w EXCEPT !.state = "closing", !.notified = TRUE]
    ELSE w

\* The peer closes or the transport drops: readyState leaves OPEN, and the
\* close event is delivered later.
PeerCloses(c) ==
    /\ IsOpen(c)
    /\ conn' = [conn EXCEPT ![c].state = "closing"]
    /\ UNCHANGED <<configVars, handlerVars, lifecycleVars, clients, httpVars,
                   relayVars, lastBroadcast>>
    /\ UNCHANGED pageVars

OnCloseLogsOnly(c) ==
    /\ conn[c].state = "closing"
    /\ conn' = [conn EXCEPT ![c] = [NoConn EXCEPT !.state = "closed"]]
    /\ UNCHANGED <<configVars, handlerVars, lifecycleVars, clients, httpVars,
                   relayVars, lastBroadcast>>
    /\ UNCHANGED pageVars

\* ws.on("close") of line 134.
OnClose(c) ==
    /\ conn[c].state = "closing"
    /\ conn' = [conn EXCEPT ![c] = [NoConn EXCEPT !.state = "closed"]]
    /\ clients' = clients \ {c}
    /\ UNCHANGED <<configVars, handlerVars, lifecycleVars, httpVars, relayVars,
                   lastBroadcast>>
    /\ UNCHANGED pageVars

OnErrorLogsOnly(c) ==
    /\ conn[c].state \in {"open", "closing"}
    /\ conn' = [conn EXCEPT ![c].state = "closing", ![c].notified = TRUE]
    /\ UNCHANGED <<configVars, handlerVars, lifecycleVars, clients, httpVars,
                   relayVars, lastBroadcast>>
    /\ UNCHANGED pageVars

\* ws.on("error") of line 141: ws emits error while it closes the socket.
OnError(c) ==
    /\ conn[c].state \in {"open", "closing"}
    /\ conn' = [conn EXCEPT ![c].state = "closing", ![c].notified = TRUE]
    /\ clients' = clients \ {c}
    /\ UNCHANGED <<configVars, handlerVars, lifecycleVars, httpVars, relayVars,
                   lastBroadcast>>
    /\ UNCHANGED pageVars

(***************************************************************************)
(* stop()                                                                  *)
(***************************************************************************)
\* stop() invocations take the lowest free slot.
FreeStop(i) ==
    /\ stops[i].pc \in Finished
    /\ \A j \in StopIds : j < i => stops[j].pc \notin Finished

\* Lines 162-175 up to the first await: the registered sockets are
\* terminated, the registry is cleared and the WebSocket layer is asked to
\* close. With this.wss null the callback is never registered.
StopCall(i) ==
    /\ FreeStop(i)
    /\ IF ~IsRunning
       THEN /\ stops' = [stops EXCEPT ![i] = [IdleStop EXCEPT !.pc = "resolved"]]
            /\ UNCHANGED <<httpServer, wss, servers, clients, conn>>
       ELSE /\ conn' = [c \in Conns |->
                           IF c \in clients THEN Terminated(conn[c]) ELSE conn[c]]
            /\ clients' = {}
            /\ IF wss = 0
               THEN /\ stops' = [stops EXCEPT ![i] = [IdleStop EXCEPT !.pc = "stalled"]]
                    /\ UNCHANGED servers
               ELSE /\ stops' = [stops EXCEPT ![i] = [IdleStop EXCEPT
                                                        !.pc = "awaitWss", !.w = wss]]
                    /\ servers' = [servers EXCEPT ![wss].wss =
                                       IF @ = "running" THEN "closing" ELSE @]
            /\ UNCHANGED <<httpServer, wss>>
    /\ UNCHANGED <<configVars, handlerVars, httpVars, relayVars, lastBroadcast>>
    /\ UNCHANGED pageVars

\* WebSocketServer.close reports closed once the sockets it tracks have
\* emitted their close events.
WssDrained(w) == \A c \in Conns : conn[c].srv = w => conn[c].state = "closed"

\* The stop() calls that wait for the close of the WebSocket layer w.
AwaitingWss(w) == { i \in StopIds : stops[i].pc = "awaitWss" /\ stops[i].w = w }

\* The callback of line 174 and lines 176-187. The close event of the
\* WebSocket layer w calls the callback of every stop() that waits for it,
\* and their continuations run one after the other before any other event:
\* each clears this.wss and calls this.httpServer?.close(callback). With
\* this.httpServer null the callback is never registered; the first close
\* of a listening server stops it, and a close of a server that is not
\* listening gets ERR_SERVER_NOT_RUNNING when the close event is emitted.
WssClosed(w) ==
    /\ AwaitingWss(w) # {}
    /\ WssDrained(w)
    /\ wss' = 0
    /\ LET first == CHOOSE i \in AwaitingWss(w) : \A j \in AwaitingWss(w) : i <= j
           closedWss == [servers EXCEPT ![w].wss = "closed"]
       IN IF httpServer = 0
          THEN /\ stops' = [i \in StopIds |->
                               IF i \in AwaitingWss(w)
                               THEN [IdleStop EXCEPT !.pc = "stalled"]
                               ELSE stops[i]]
               /\ servers' = closedWss
          ELSE /\ stops' = [i \in StopIds |->
                               IF i \in AwaitingWss(w)
                               THEN [IdleStop EXCEPT
                                        !.pc = "awaitHttp", !.h = httpServer,
                                        !.err = (i # first \/ ~Listening(httpServer))]
                               ELSE stops[i]]
               /\ servers' = [closedWss EXCEPT ![httpServer].state =
                                  IF @ = "listening" THEN "closing" ELSE @]
    /\ UNCHANGED <<configVars, handlerVars, httpServer, clients, conn, httpVars,
                   relayVars, lastBroadcast>>
    /\ UNCHANGED pageVars

\* The sockets the listener accepted are all gone.
Drained(h) == \A c \in Conns : conn[c].srv = h => ~IsOpen(c)

\* A WebSocket layer with no socket left calls its close callbacks on the
\* next tick, ahead of the events of the listeners.
WssCallbackDue == \E w \in ServerIds : AwaitingWss(w) # {} /\ WssDrained(w)

\* The stop() calls that wait for the close of the listener h.
AwaitingHttp(h) == { i \in StopIds : stops[i].pc = "awaitHttp" /\ stops[i].h = h }

\* The callbacks of lines 180-186 and line 188. The close event of the
\* listener h calls the callback of every stop() that waits for it: the
\* one with no error resolves after clearing this.httpServer, the others
\* reject and leave it.
HttpClosed(h) ==
    /\ AwaitingHttp(h) # {}
    /\ Drained(h)
    /\ ~WssCallbackDue
    /\ servers' = [servers EXCEPT ![h].state = IF @ = "closing" THEN "closed" ELSE @]
    /\ stops' = [i \in StopIds |->
                    IF i \in AwaitingHttp(h)
                    THEN [IdleStop EXCEPT
                             !.pc = IF stops[i].err THEN "rejected" ELSE "resolved"]
                    ELSE stops[i]]
    /\ httpServer' = IF \E i \in AwaitingHttp(h) : ~stops[i].err THEN 0 ELSE httpServer
    /\ UNCHANGED <<configVars, handlerVars, wss, clients, conn, httpVars, relayVars,
                   lastBroadcast>>
    /\ UNCHANGED pageVars

(***************************************************************************)
(* Strings, base64 and paths, as checkBasicAuth and handleRequest use them *)
(***************************************************************************)
Colon == 58
PadChar == 61
ReplacementChar == 65533

\* "Basic " and "Bearer "
BasicPrefix == <<66, 97, 115, 105, 99, 32>>
BearerPrefix == <<66, 101, 97, 114, 101, 114, 32>>

\* String.prototype.startsWith
StartsWith(s, p) == Len(s) >= Len(p) /\ SubSeq(s, 1, Len(p)) = p

\* String.prototype.slice(from), from counted from zero
Slice(s, from) == SubSeq(s, from + 1, Len(s))

\* String.prototype.indexOf of one character: zero-based, -1 when absent
IndexOf(s, ch) ==
    IF \E i \in 1..Len(s) : s[i] = ch
    THEN (CHOOSE i \in 1..Len(s) : s[i] = ch /\ \A j \in 1..(i - 1) : s[j] # ch) - 1
    ELSE -1

\* The value of a character of the base64 alphabet, -1 for any other.
B64Value(c) ==
    CASE c \in 65..90 -> c - 65
      [] c \in 97..122 -> c - 71
      [] c \in 48..57 -> c + 4
      [] c = 43 -> 62
      [] c = 47 -> 63
      [] OTHER -> -1

B64Char(v) ==
    CASE v < 26 -> v + 65
      [] v >= 26 /\ v < 52 -> v + 71
      [] v >= 52 /\ v < 62 -> v - 4
      [] v = 62 -> 43
      [] OTHER -> 47

\* What a browser sends: the base64 text of the credentials, padded.
RECURSIVE Base64Encode(_)
Base64Encode(b) ==
    IF Len(b) = 0 THEN <<>>
    ELSE IF Len(b) = 1
    THEN <<B64Char(b[1] \div 4), B64Char((b[1] % 4) * 16), PadChar, PadChar>>
    ELSE IF Len(b) = 2
    THEN <<B64Char(b[1] \div 4), B64Char((b[1] % 4) * 16 + b[2] \div 16),
           B64Char((b[2] % 16) * 4), PadChar>>
    ELSE <<B64Char(b[1] \div 4), B64Char((b[1] % 4) * 16 + b[2] \div 16),
           B64Char((b[2] % 16) * 4 + b[3] \div 64), B64Char(b[3] % 64)>>
         \o Base64Encode(SubSeq(b, 4, Len(b)))

\* Buffer.from(text, "base64") reads the alphabet's characters up to the
\* padding and skips any other character.
RECURSIVE Sextets(_)
Sextets(chars) ==
    IF chars = <<>> \/ Head(chars) = PadChar THEN <<>>
    ELSE IF B64Value(Head(chars)) < 0 THEN Sextets(Tail(chars))
    ELSE <<B64Value(Head(chars))>> \o Sextets(Tail(chars))

RECURSIVE BytesOf(_)
BytesOf(v) ==
    IF Len(v) >= 4
    THEN <<v[1] * 4 + v[2] \div 16, (v[2] % 16) * 16 + v[3] \div 4,
           (v[3] % 4) * 64 + v[4]>> \o BytesOf(SubSeq(v, 5, Len(v)))
    ELSE IF Len(v) = 3
    THEN <<v[1] * 4 + v[2] \div 16, (v[2] % 16) * 16 + v[3] \div 4>>
    ELSE IF Len(v) = 2 THEN <<v[1] * 4 + v[2] \div 16>>
    ELSE <<>>

Base64Decode(chars) == BytesOf(Sextets(chars))

\* Buffer.toString("utf-8"): an ASCII byte is its character; a byte that
\* starts no valid sequence here becomes U+FFFD.
Utf8ToString(bytes) ==
    [i \in 1..Len(bytes) |-> IF bytes[i] < 128 THEN bytes[i] ELSE ReplacementChar]

(***************************************************************************)
(* checkBasicAuth                                                          *)
(***************************************************************************)
ProvidedWholeText(decoded) == decoded

\* Lines 203-204: the text after the first colon, or the whole text.
ProvidedPassword(decoded) ==
    LET colonIdx == IndexOf(decoded, Colon)
    IN IF colonIdx >= 0 THEN Slice(decoded, colonIdx + 1) ELSE decoded

\* The value checkBasicAuth returns for a request with this Authorization
\* header (the empty string when the header is absent).
CheckBasicAuth(authHeader) ==
    IF password = EmptyString THEN TRUE
    ELSE IF authHeader # EmptyString /\ StartsWith(authHeader, BasicPrefix)
    THEN LET encoded == Slice(authHeader, Len(BasicPrefix))
             decoded == Utf8ToString(Base64Decode(encoded))
         IN ProvidedPassword(decoded) = password
    ELSE FALSE

(***************************************************************************)
(* Paths and the file system handleRequest reads                           *)
(***************************************************************************)
\* A path is the sequence of its segments; a segment is its stem and its
\* extension as path.extname splits it ("" for "..", for a dot file and for
\* a name without a dot).
Seg(stem, ext) == [stem |-> stem, ext |-> ext]

DotDot == Seg("..", "")

\* path.extname of a path: that of its last segment.
ExtName(p) == IF p = <<>> THEN "" ELSE p[Len(p)].ext

\* String.prototype.toLowerCase on the extensions in use
ToLowerCase(ext) == IF ext = ".PNG" THEN ".png" ELSE ext

\* path.normalize: ".." walks up, never above the root.
RECURSIVE Normalize(_, _)
Normalize(done, rest) ==
    IF rest = <<>> THEN done
    ELSE IF Head(rest) = DotDot
    THEN Normalize(IF done = <<>> THEN <<>> ELSE SubSeq(done, 1, Len(done) - 1),
                   Tail(rest))
    ELSE Normalize(Append(done, Head(rest)), Tail(rest))

\* path.join
PathJoin(a, b) == Normalize(<<>>, a \o b)

\* Lines 103-105: the three roots under the extension's directory.
ExtensionDir == <<Seg("extension", "")>>
BuildDir == ExtensionDir \o <<Seg("webview-ui", ""), Seg("build", "")>>
AssetsDir == ExtensionDir \o <<Seg("assets", "")>>
AudioDir == ExtensionDir \o <<Seg("webview-ui", ""), Seg("audio", "")>>

\* The files on disk: those of the three roots, one beside them, and a
\* directory, which exists but cannot be read as a file.
RegularFiles ==
    { BuildDir \o <<Seg("assets", ""), Seg("index", ".js")>>,
      BuildDir \o <<Seg("data", ".bin")>>,
      AssetsDir \o <<Seg("codicons", ""), Seg("codicon", ".css")>>,
      AssetsDir \o <<Seg("ICON", ".PNG")>>,
      AudioDir \o <<Seg("ding", ".wav")>>,
      ExtensionDir \o <<Seg("package", ".json")>> }

Directories == { AssetsDir \o <<Seg("codicons", "")>>, AssetsDir \o <<Seg("v1", ".0")>> }

\* fs.existsSync
ExistsSync(p) == p \in RegularFiles \/ p \in Directories

\* Lines 12-33.
MimeType(ext) ==
    CASE ext = ".html" -> "text/html"
      [] ext \in {".js", ".mjs"} -> "application/javascript"
      [] ext = ".css" -> "text/css"
      [] ext = ".json" -> "application/json"
      [] ext = ".png" -> "image/png"
      [] ext \in {".jpg", ".jpeg"} -> "image/jpeg"
      [] ext = ".gif" -> "image/gif"
      [] ext = ".svg" -> "image/svg+xml"
      [] ext = ".ico" -> "image/x-icon"
      [] ext = ".woff" -> "font/woff"
      [] ext = ".woff2" -> "font/woff2"
      [] ext = ".ttf" -> "font/ttf"
      [] ext = ".eot" -> "application/vnd.ms-fontobject"
      [] ext = ".otf" -> "font/otf"
      [] ext = ".wasm" -> "application/wasm"
      [] ext = ".mp3" -> "audio/mpeg"
      [] ext = ".wav" -> "audio/wav"
      [] ext = ".ogg" -> "audio/ogg"
      [] OTHER -> "application/octet-stream"

(***************************************************************************)
(* handleRequest, serveIndexHtml, serveFile                                *)
(***************************************************************************)
NoReq == [method |-> "NONE", upgrade |-> FALSE, path |-> <<>>, query |-> FALSE,
          auth |-> EmptyString, srv |-> 0]

Response(status, contentType, body, file, wwwAuth) ==
    [status |-> status, contentType |-> contentType, body |-> body, file |-> file,
     wwwAuth |-> wwwAuth, cors |-> TRUE]

NoRes == [status |-> 0, contentType |-> "", body |-> "", file |-> <<>>,
          wwwAuth |-> FALSE, cors |-> FALSE]

\* Lines 211-213.
Unauthorized == Response(401, "text/plain", "Unauthorized", <<>>, TRUE)

\* Lines 283-570: the bootstrap page.
ServeIndexHtml == Response(200, "text/html", "bootstrap", <<>>, FALSE)

ServeFileOrIndex(filePath) ==
    IF ~ExistsSync(filePath)
    THEN ServeIndexHtml
    ELSE IF filePath \in Directories
    THEN Response(500, "text/plain", "Internal Server Error", <<>>, FALSE)
    ELSE Response(200, MimeType(ToLowerCase(ExtName(filePath))), "file", filePath,
                  FALSE)

\* Lines 572-591. Reading a directory throws, and the catch answers 500.
ServeFile(filePath) ==
    IF ~ExistsSync(filePath)
    THEN Response(404, "text/plain", "Not Found", <<>>, FALSE)
    ELSE IF filePath \in Directories
    THEN Response(500, "text/plain", "Internal Server Error", <<>>, FALSE)
    ELSE Response(200, MimeType(ToLowerCase(ExtName(filePath))), "file", filePath,
                  FALSE)

RouteWithoutSpaRule(urlPath) ==
    IF Len(urlPath) >= 2 /\ urlPath[1] = Seg("ext-assets", "")
    THEN ServeFile(PathJoin(AssetsDir, Tail(urlPath)))
    ELSE IF Len(urlPath) >= 2 /\ urlPath[1] = Seg("audio", "")
    THEN ServeFile(PathJoin(AudioDir, Tail(urlPath)))
    ELSE ServeFile(PathJoin(BuildDir, urlPath))

\* Lines 242-274: the routing of a request that passed the guard.
Route(urlPath) ==
    IF Len(urlPath) >= 2 /\ urlPath[1] = Seg("ext-assets", "")
    THEN ServeFile(PathJoin(AssetsDir, Tail(urlPath)))
    ELSE IF Len(urlPath) >= 2 /\ urlPath[1] = Seg("audio", "")
    THEN ServeFile(PathJoin(AudioDir, Tail(urlPath)))
    ELSE IF urlPath = <<>> \/ ExtName(urlPath) = ""
    THEN ServeIndexHtml
    ELSE IF ~ExistsSync(PathJoin(BuildDir, urlPath))
    THEN ServeIndexHtml
    ELSE ServeFile(PathJoin(BuildDir, urlPath))

\* Lines 224-275: the response handleRequest writes for request r. The query
\* string is split off the path before the routing.
Respond(r) ==
    IF r.method = "OPTIONS"
    THEN Response(204, "", "", <<>>, FALSE)
    ELSE IF ~CheckBasicAuth(r.auth)
    THEN Unauthorized
    ELSE Route(r.path)

\* A request reaches a listening server of this process. One that asks an
\* upgrade comes to the request listener only when the server has no
\* upgrade listener.
RequestArrives(r) ==
    /\ req = NoReq
    /\ \E s \in ServerIds :
        /\ Listening(s)
        /\ r.upgrade => servers[s].wss # "running"
        /\ req' = [r EXCEPT !.srv = s]
    /\ res' = NoRes
    /\ UNCHANGED <<configVars, handlerVars, lifecycleVars, clients, conn, relayVars,
                   lastBroadcast>>
    /\ UNCHANGED pageVars

\* Line 107: the request listener.
HandleRequest ==
    /\ req # NoReq
    /\ res = NoRes
    /\ res' = Respond(req)
    /\ UNCHANGED <<configVars, handlerVars, lifecycleVars, clients, conn, req,
                   relayVars, lastBroadcast>>
    /\ UNCHANGED pageVars

\* Lines 111-116: the WebSocket layer takes the upgrade requests of its
\* server and calls the connection callback, which registers the socket.
\* guarded records what checkBasicAuth answers for the upgrade request.
HandleUpgrade(r) ==
    /\ r.upgrade
    /\ \E s \in ServerIds, c \in Conns :
        /\ Listening(s)
        /\ servers[s].wss = "running"
        /\ FreshConn(c)
        /\ conn' = [conn EXCEPT ![c] = [state |-> "open", srv |-> s,
                                        guarded |-> CheckBasicAuth(r.auth),
                                        notified |-> FALSE]]
        /\ clients' = clients \cup {c}
    /\ UNCHANGED <<configVars, handlerVars, lifecycleVars, httpVars, relayVars,
                   lastBroadcast>>
    /\ UNCHANGED pageVars

\* The exchange is over.
ResponseSent ==
    /\ res # NoRes
    /\ req' = NoReq
    /\ res' = NoRes
    /\ UNCHANGED <<configVars, handlerVars, lifecycleVars, clients, conn, relayVars,
                   lastBroadcast>>
    /\ UNCHANGED pageVars

(***************************************************************************)
(* JSON values and the frames of the WebSocket protocol                    *)
(***************************************************************************)
Absent == [k |-> "absent", n |-> 0, s |-> ""]
JNull == [k |-> "null", n |-> 0, s |-> ""]
JNum(n) == [k |-> "num", n |-> n, s |-> ""]
JStr(s) == [k |-> "str", n |-> 0, s |-> s]
JObj(s) == [k |-> "obj", n |-> 0, s |-> s]

\* The truthiness JavaScript gives a value in a condition.
Truthy(x) ==
    \/ x.k = "obj"
    \/ x.k = "num" /\ x.n # 0
    \/ x.k = "str" /\ x.s # ""

\* What JSON.parse makes of a frame's text: a failure, null, or an object
\* with some of the fields type, payload and action.
Malformed == [json |-> "malformed", type |-> Absent, payload |-> Absent,
              action |-> Absent]
ParsedNull == [json |-> "null", type |-> Absent, payload |-> Absent,
               action |-> Absent]
Envelope(type, payload, action) ==
    [json |-> "object", type |-> type, payload |-> payload, action |-> action]

WebviewMessageType == JStr("webview-message")
ToolbarActionType == JStr("toolbar-action")

Frames ==
    { Malformed, ParsedNull,
      Envelope(WebviewMessageType, JObj("{x:1}"), Absent),
      Envelope(WebviewMessageType, JObj("{y:2}"), JStr("newTask")),
      Envelope(WebviewMessageType, JNum(0), Absent),
      Envelope(WebviewMessageType, JNull, Absent),
      Envelope(WebviewMessageType, Absent, Absent),
      Envelope(ToolbarActionType, Absent, JStr("newTask")),
      Envelope(ToolbarActionType, JObj("{x:1}"), JStr("history")),
      Envelope(ToolbarActionType, Absent, JStr("")),
      Envelope(ToolbarActionType, Absent, JNum(7)),
      Envelope(ToolbarActionType, Absent, Absent),
      Envelope(JStr("unknown"), Absent, Absent),
      Envelope(JStr("unknown"), JObj("{x:1}"), JStr("newTask")),
      Envelope(Absent, JObj("{x:1}"), Absent) }

\* The host's handlers. "null" is the unset slot.
NoHandler == "null"
Handlers == {"hostHandler"}

(***************************************************************************)
(* The message callback of lines 117-132                                   *)
(***************************************************************************)
IdleTask == [pc |-> "idle", conn |-> 0]

NoTurn == [conn |-> 0, frame |-> Malformed, msgCalls |-> 0, msgArg |-> Absent,
           toolCalls |-> 0, toolArg |-> Absent, caught |-> FALSE,
           afterFailure |-> FALSE]

InTurn == lastFrame # NoTurn

\* Suspended callbacks take the lowest free slot.
FreeTask(t) ==
    /\ tasks[t].pc = "idle"
    /\ \A u \in TaskIds : u < t => tasks[u].pc # "idle"

\* JSON.parse throws on malformed text; reading parsed.type throws on null.
ParseThrows(f) == f.json \in {"malformed", "null"}

MessageDispatchIfPresent(f) ==
    f.type = WebviewMessageType /\ f.payload # Absent /\ messageHandler # NoHandler

\* The condition of line 121.
MessageDispatch(f) ==
    f.type = WebviewMessageType /\ Truthy(f.payload) /\ messageHandler # NoHandler

\* The condition of line 126.
ToolbarDispatch(f) ==
    f.type = ToolbarActionType /\ Truthy(f.action) /\ toolbarActionHandler # NoHandler

\* Line 122: the argument of the message handler.
MessageArgument(f) == f.payload

\* Line 127: the argument of the toolbar handler.
ToolbarArgument(f) == f.action

CaughtClosesConnection(c) ==
    /\ conn' = [conn EXCEPT ![c] = Terminated(conn[c])]
    /\ clients' = clients \ {c}

\* Lines 129-131: the catch logs and does nothing else.
Caught(c) == UNCHANGED <<conn, clients>>

\* A frame arrives on the open connection c and the callback runs up to its
\* first await. A handler either throws at once or returns a promise, which
\* settles later; sync tells which.
OnMessage(c, f, sync) ==
    /\ IsOpen(c)
    /\ IF ParseThrows(f)
       THEN /\ sync = "throws"
            /\ Caught(c)
            /\ lastFailure' = c
            /\ UNCHANGED tasks
            /\ lastFrame' = [NoTurn EXCEPT !.conn = c, !.frame = f, !.caught = TRUE,
                                           !.afterFailure = (lastFailure = c)]
       ELSE IF MessageDispatch(f)
       THEN IF sync = "throws"
            THEN /\ Caught(c)
                 /\ lastFailure' = c
                 /\ UNCHANGED tasks
                 /\ lastFrame' = [NoTurn EXCEPT !.conn = c, !.frame = f,
                                      !.msgCalls = 1, !.msgArg = MessageArgument(f),
                                      !.caught = TRUE,
                                      !.afterFailure = (lastFailure = c)]
            ELSE /\ \E t \in TaskIds :
                      /\ FreeTask(t)
                      /\ tasks' = [tasks EXCEPT ![t] = [pc |-> "awaitMessage",
                                                        conn |-> c]]
                 /\ lastFrame' = [NoTurn EXCEPT !.conn = c, !.frame = f,
                                      !.msgCalls = 1, !.msgArg = MessageArgument(f),
                                      !.afterFailure = (lastFailure = c)]
                 /\ UNCHANGED <<conn, clients, lastFailure>>
       ELSE IF ToolbarDispatch(f)
       THEN IF sync = "throws"
            THEN /\ Caught(c)
                 /\ lastFailure' = c
                 /\ UNCHANGED tasks
                 /\ lastFrame' = [NoTurn EXCEPT !.conn = c, !.frame = f,
                                      !.toolCalls = 1, !.toolArg = ToolbarArgument(f),
                                      !.caught = TRUE,
                                      !.afterFailure = (lastFailure = c)]
            ELSE /\ \E t \in TaskIds :
                      /\ FreeTask(t)
                      /\ tasks' = [tasks EXCEPT ![t] = [pc |-> "awaitToolbar",
                                                        conn |-> c]]
                 /\ lastFrame' = [NoTurn EXCEPT !.conn = c, !.frame = f,
                                      !.toolCalls = 1, !.toolArg = ToolbarArgument(f),
                                      !.afterFailure = (lastFailure = c)]
                 /\ UNCHANGED <<conn, clients, lastFailure>>
       ELSE /\ sync = "returns"
            /\ lastFrame' = [NoTurn EXCEPT !.conn = c, !.frame = f,
                                 !.afterFailure = (lastFailure = c)]
            /\ UNCHANGED <<conn, clients, tasks, lastFailure>>
    /\ UNCHANGED <<configVars, handlerVars, lifecycleVars, httpVars, lastBroadcast>>
    /\ UNCHANGED pageVars

\* The callback has run to its await or to its end: back in the event loop.
TurnEnds ==
    /\ InTurn
    /\ lastFrame' = NoTurn
    /\ UNCHANGED <<configVars, handlerVars, lifecycleVars, clients, conn, httpVars,
                   tasks, lastFailure, lastBroadcast>>
    /\ UNCHANGED pageVars

\* The promise of the message handler settles and the callback resumes after
\* line 122. The frame's type is "webview-message" here (line 121), so the
\* test of line 126 fails and the callback ends; a rejection is caught.
MessageHandlerSettles(t, outcome) ==
    /\ tasks[t].pc = "awaitMessage"
    /\ tasks' = [tasks EXCEPT ![t] = IdleTask]
    /\ IF outcome = "rejected"
       THEN Caught(tasks[t].conn) /\ lastFailure' = tasks[t].conn
       ELSE UNCHANGED <<conn, clients, lastFailure>>
    /\ UNCHANGED <<configVars, handlerVars, lifecycleVars, httpVars, lastFrame,
                   lastBroadcast>>
    /\ UNCHANGED pageVars

\* The promise of the toolbar handler settles: the callback ends after line
\* 127, or the rejection is caught.
ToolbarHandlerSettles(t, outcome) ==
    /\ tasks[t].pc = "awaitToolbar"
    /\ tasks' = [tasks EXCEPT ![t] = IdleTask]
    /\ IF outcome = "rejected"
       THEN Caught(tasks[t].conn) /\ lastFailure' = tasks[t].conn
       ELSE UNCHANGED <<conn, clients, lastFailure>>
    /\ UNCHANGED <<configVars, handlerVars, lifecycleVars, httpVars, lastFrame,
                   lastBroadcast>>
    /\ UNCHANGED pageVars

(***************************************************************************)
(* broadcastToClients                                                      *)
(***************************************************************************)
\* JSON.stringify of a value, as the text's tokens.
StringifyValue(x) ==
    CASE x.k = "null" -> <<"null">>
      [] x.k = "num" -> <<"num", ToString(x.n)>>
      [] x.k = "str" -> <<"\"", x.s, "\"">>
      [] OTHER -> <<x.s>>

\* Line 89: JSON.stringify({ type: "extension-message", payload: message }).
\* A key whose value is undefined is left out.
StringifyEnvelope(message) ==
    <<"{", "\"type\":", "\"extension-message\"">>
    \o (IF message = Absent THEN <<>> ELSE <<",", "\"payload\":">> \o StringifyValue(message))
    \o <<"}">>

ExtensionMessages == { JObj("{foo:1}"), JObj("{state:{}}") }

NoBroadcast == [called |-> FALSE, message |-> Absent,
                writes |-> [c \in Conns |-> <<>>]]

SendToAllRegistered(c) == c \in clients

\* Lines 90-91: the connections broadcastToClients writes to.
SendsTo(c) == c \in clients /\ IsOpen(c)

BroadcastPrunes(message) ==
    /\ lastBroadcast' =
           [called |-> TRUE, message |-> message,
            writes |-> IF Cardinality(clients) = 0
                       THEN [c \in Conns |-> <<>>]
                       ELSE LET data == StringifyEnvelope(message)
                            IN [c \in Conns |-> IF SendsTo(c) THEN <<data>> ELSE <<>>]]
    /\ clients' = { c \in clients : IsOpen(c) }
    /\ UNCHANGED <<configVars, handlerVars, lifecycleVars, conn, httpVars, relayVars>>
    /\ UNCHANGED pageVars

\* Lines 85-95. writes[c] holds the texts written to connection c.
BroadcastToClients(message) ==
    /\ lastBroadcast' =
           [called |-> TRUE, message |-> message,
            writes |-> IF Cardinality(clients) = 0
                       THEN [c \in Conns |-> <<>>]
                       ELSE LET data == StringifyEnvelope(message)
                            IN [c \in Conns |-> IF SendsTo(c) THEN <<data>> ELSE <<>>]]
    /\ UNCHANGED <<configVars, handlerVars, lifecycleVars, clients, conn, httpVars,
                   relayVars>>
    /\ UNCHANGED pageVars

(***************************************************************************)
(* The bootstrap page's client script, WebServer.ts lines 482-557          *)
(***************************************************************************)
\* The WebSocket objects of the page. "none" is an object that does not
\* exist: one not created yet, or one whose close event has been handled
\* and which nothing references any more.
SocketIds == 1..MaxSockets

\* readyState CONNECTING or OPEN.
Live(k) == sock[k] \in {"connecting", "open"}
LiveSockets == { k \in SocketIds : Live(k) }

\* new WebSocket(url) makes an object that did not exist.
FreshSocket(k) ==
    /\ sock[k] = "none"
    /\ \A j \in SocketIds : j < k => sock[j] # "none"

\* The server answers an upgrade request (lines 111-115).
Accepting == \E s \in ServerIds : Listening(s) /\ servers[s].wss = "running"

NoSend == [by |-> "none", sock |-> 0, frame |-> Malformed]

\* The actions of the toolbar's buttons, lines 530-544.
ToolbarActions == {"newTask", "history", "marketplace", "settings", "cloud"}

\* The messages the webview posts.
WebviewMessages == { JObj("{type:webviewDidLaunch}"), JObj("{type:newTask}") }

\* Lines 494-521: connect() makes a socket, stores it in ws and registers
\* the listeners, which are the actions OpenEvent, CloseEvent, ErrorEvent.
connect ==
    \E k \in SocketIds :
        /\ FreshSocket(k)
        /\ sock' = [sock EXCEPT ![k] = "connecting"]
        /\ ws' = k

\* Lines 482-557: the page loads and the script runs, once. Line 546 calls
\* connect(), lines 549-556 publish the facade.
RunScript ==
    /\ rooWebSocket = "undefined"
    /\ connect
    /\ rooWebSocket' = "facade"
    /\ UNCHANGED <<serverVars, reconnectTimer, statusEl, lastSend, storageVars>>

\* The server accepts the connection; the open listener, lines 498-500.
OpenEvent(k) ==
    /\ sock[k] = "connecting"
    /\ Accepting
    /\ sock' = [sock EXCEPT ![k] = "open"]
    /\ statusEl' = "Connected"
    /\ UNCHANGED <<serverVars, ws, reconnectTimer, rooWebSocket, lastSend, storageVars>>

\* The error listener calls connect() itself.
ErrorEventReconnects(k) ==
    /\ sock[k] = "connecting"
    /\ ~Accepting
    /\ \E j \in SocketIds :
        /\ FreshSocket(j)
        /\ sock' = [sock EXCEPT ![k] = "closed", ![j] = "connecting"]
        /\ ws' = j
    /\ statusEl' = "Error"
    /\ UNCHANGED <<serverVars, reconnectTimer, rooWebSocket, lastSend, storageVars>>

\* Nothing answers the connection attempt: the browser sets readyState to
\* CLOSED and fires error, then close. The error listener, lines 509-511.
ErrorEvent(k) ==
    /\ sock[k] = "connecting"
    /\ ~Accepting
    /\ sock' = [sock EXCEPT ![k] = "closed"]
    /\ statusEl' = "Error"
    /\ UNCHANGED <<serverVars, ws, reconnectTimer, rooWebSocket, lastSend, storageVars>>

\* The connection of an open socket ends: the server terminates or closes
\* it, or the network drops it. No listener runs yet.
ConnectionEnds(k) ==
    /\ sock[k] = "open"
    /\ sock' = [sock EXCEPT ![k] = "closing"]
    /\ UNCHANGED <<serverVars, ws, reconnectTimer, statusEl, rooWebSocket, lastSend,
                   storageVars>>

\* The close listener forgets the socket and sets no timer.
CloseEventSetsNoTimer(k) ==
    /\ sock[k] \in {"closing", "closed"}
    /\ sock' = [sock EXCEPT ![k] = "none"]
    /\ statusEl' = "Disconnected"
    /\ ws' = 0
    /\ UNCHANGED <<serverVars, reconnectTimer, rooWebSocket, lastSend, storageVars>>

\* The close listener, lines 502-507. clearTimeout followed by setTimeout
\* leaves one pending timer. The browser fires close once for a socket.
CloseEvent(k) ==
    /\ sock[k] \in {"closing", "closed"}
    /\ sock' = [sock EXCEPT ![k] = "none"]
    /\ statusEl' = "Disconnected"
    /\ ws' = 0
    /\ reconnectTimer' = "pending"
    /\ UNCHANGED <<serverVars, rooWebSocket, lastSend, storageVars>>

\* Line 506: the timer is due after 2000 ms and calls connect(). The
\* variable keeps the id of the timer that fired.
TimerFires ==
    /\ reconnectTimer = "pending"
    /\ connect
    /\ reconnectTimer' = "fired"
    /\ UNCHANGED <<serverVars, statusEl, rooWebSocket, lastSend, storageVars>>

\* Lines 524 and 552: the condition under which the page sends.
CanSend == ws # 0 /\ sock[ws] = "open"

\* Lines 523-527, called by the click listeners of lines 530-544, which
\* exist once the script has run.
\* lastSend.sock is the socket the text was written to, 0 when none was.
sendToolbarAction(action) ==
    /\ rooWebSocket = "facade"
    /\ lastSend' = [by |-> "sendToolbarAction",
                    sock |-> IF CanSend THEN ws ELSE 0,
                    frame |-> Envelope(ToolbarActionType, Absent, JStr(action))]
    /\ UNCHANGED <<serverVars, ws, reconnectTimer, sock, statusEl, rooWebSocket,
                   storageVars>>

\* vscode.ts lines 41-51 in a browser, where vsCodeApi is undefined:
\* postMessage calls window.__rooWebSocket.send (lines 551-555) when the
\* facade is there, and drops the message otherwise.
postMessage(message) ==
    /\ lastSend' = [by |-> "postMessage",
                    sock |-> IF rooWebSocket = "facade" /\ CanSend THEN ws ELSE 0,
                    frame |-> Envelope(WebviewMessageType, message, Absent)]
    /\ UNCHANGED <<serverVars, ws, reconnectTimer, sock, statusEl, rooWebSocket,
                   storageVars>>

(***************************************************************************)
(* getState and setState of vscode.ts in a browser (vsCodeApi undefined)   *)
(***************************************************************************)
\* localStorage.getItem("vscodeState"): null, or the stored string.
NoItem == [present |-> FALSE, text |-> <<>>]
Item(text) == [present |-> TRUE, text |-> text]

StateNumbers == {0, 7}
StateObjects == {"{}", "{x:1}", "[1]"}

\* The states a caller hands to setState; Absent is undefined.
States ==
    {Absent, JNull, JStr(""), JStr("a"), JStr("undefined")}
    \cup { JNum(n) : n \in StateNumbers } \cup { JObj(o) : o \in StateObjects }

\* JSON.stringify: undefined for undefined, the JSON text for the rest.
JsonStringify(x) ==
    [undefined |-> x = Absent,
     text |-> IF x = Absent THEN <<>> ELSE StringifyValue(x)]

\* localStorage.setItem converts its value to a string, and undefined
\* converts to "undefined".
ToDOMString(v) == IF v.undefined THEN <<"undefined">> ELSE v.text

\* The texts JSON.parse accepts; on the others it throws a SyntaxError.
IsJsonText(t) ==
    \/ t = <<"null">>
    \/ Len(t) = 2 /\ t[1] = "num" /\ \E n \in StateNumbers : ToString(n) = t[2]
    \/ Len(t) = 3 /\ t[1] = "\"" /\ t[3] = "\""
    \/ Len(t) = 1 /\ t[1] \in StateObjects

JsonParse(t) ==
    CASE t = <<"null">> -> JNull
      [] Len(t) = 2 -> JNum(CHOOSE n \in StateNumbers : ToString(n) = t[2])
      [] Len(t) = 3 -> JStr(t[2])
      [] OTHER -> JObj(t[1])

\* The truthiness of what getItem returned: null and "" are falsy.
ItemTruthy(item) ==
    item.present /\ \E i \in 1..Len(item.text) : item.text[i] # ""

\* op is the latest call. set, state and setReturned are the latest
\* setState call: whether there was one, its argument and what it returned.
\* returned and threw are the outcome of the latest getState call.
NoCall == [op |-> "none", set |-> FALSE, state |-> Absent, setReturned |-> Absent,
           returned |-> Absent, threw |-> FALSE]

\* vscode.ts lines 61-68, the else branch (lines 65-66).
getState ==
    /\ lastState' =
           LET state == vscodeState
               throws == ItemTruthy(state) /\ ~IsJsonText(state.text)
           IN [lastState EXCEPT
                  !.op = "getState",
                  !.threw = throws,
                  !.returned = IF ItemTruthy(state) /\ ~throws
                               THEN JsonParse(state.text)
                               ELSE Absent]
    /\ UNCHANGED <<serverVars, socketVars, vscodeState>>

\* vscode.ts lines 81-88, the else branch (lines 85-86).
setState(newState) ==
    /\ vscodeState' = Item(ToDOMString(JsonStringify(newState)))
    /\ lastState' = [lastState EXCEPT !.op = "setState", !.set = TRUE,
                                      !.state = newState, !.setReturned = newState]
    /\ UNCHANGED <<serverVars, socketVars>>

\* The page before it is loaded.
InitPage ==
    /\ ws = 0
    /\ reconnectTimer = "null"
    /\ sock = [k \in SocketIds |-> "none"]
    /\ statusEl = "Connecting..."
    /\ rooWebSocket = "undefined"
    /\ lastSend = NoSend
    /\ vscodeState = NoItem
    /\ lastState = NoCall

(***************************************************************************)
(* The state after construction, and the state after a first start()       *)
(***************************************************************************)
Init ==
    /\ port = DEFAULT_WEB_SERVER_PORT
    /\ password = EmptyString
    /\ messageHandler = NoHandler
    /\ toolbarActionHandler = NoHandler
    /\ httpServer = 0
    /\ wss = 0
    /\ clients = {}
    /\ servers = [s \in ServerIds |-> NoServerObject]
    /\ conn = [c \in Conns |-> NoConn]
    /\ stops = [i \in StopIds |-> IdleStop]
    /\ req = NoReq
    /\ res = NoRes
    /\ tasks = [t \in TaskIds |-> IdleTask]
    /\ lastFrame = NoTurn
    /\ lastFailure = 0
    /\ lastBroadcast = NoBroadcast
    /\ InitPage

\* configure is not called, start() is, and its bind succeeds.
InitListening ==
    /\ port = DEFAULT_WEB_SERVER_PORT
    /\ password = EmptyString
    /\ messageHandler = NoHandler
    /\ toolbarActionHandler = NoHandler
    /\ httpServer = 1
    /\ wss = 1
    /\ clients = {}
    /\ servers = [s \in ServerIds |->
                     IF s = 1
                     THEN [state |-> "listening", port |-> DEFAULT_WEB_SERVER_PORT,
                           wss |-> "running", start |-> "resolved", err |-> "none"]
                     ELSE NoServerObject]
    /\ conn = [c \in Conns |-> NoConn]
    /\ stops = [i \in StopIds |-> IdleStop]
    /\ req = NoReq
    /\ res = NoRes
    /\ tasks = [t \in TaskIds |-> IdleTask]
    /\ lastFrame = NoTurn
    /\ lastFailure = 0
    /\ lastBroadcast = NoBroadcast
    /\ InitPage

(***************************************************************************)
(* The inputs                                                              *)
(***************************************************************************)
SeqsUpTo(alphabet, n) == UNION { [1..k -> alphabet] : k \in 0..n }

\* ":" and "s"
TextAlphabet == {Colon, 115}

Passwords == SeqsUpTo(TextAlphabet, MaxPwLen)
PasswordArgs == Passwords \cup {Undefined}
Credentials == SeqsUpTo(TextAlphabet, MaxCredLen)

\* The Authorization header: absent, or a scheme and the base64 text.
AuthHeaders ==
    {EmptyString}
    \cup { BasicPrefix \o Base64Encode(t) : t \in Credentials }
    \cup { BearerPrefix \o Base64Encode(t) : t \in Credentials }

PortArgs == {-1, 0, 1024, DEFAULT_WEB_SERVER_PORT, MaxTcpPort, MaxTcpPort + 1}

\* The port arguments of the lifecycle: none given, and both ends of the
\* range of the unprivileged ports.
LifecyclePorts == {0, 1024, MaxTcpPort}

Request(method, upgrade, path, auth) ==
    [method |-> method, upgrade |-> upgrade, path |-> path, query |-> FALSE,
     auth |-> auth, srv |-> 0]

\* "/", "/nonexistent-route", "/assets/index.js", "/missing.js",
\* "/ext-assets/codicons/codicon.css", "/ext-assets/does-not-exist.png",
\* "/audio/ding.wav", "/ext-assets/../package.json", "/ext-assets/codicons",
\* "/data.bin", "/ext-assets/ICON.PNG", "/audio/missing", "/audio/missing.mp3",
\* "/ext-assets/v1.0", "/../../package.json", "/a/../assets/index.js"
UrlPaths ==
    { <<>>,
      <<Seg("nonexistent-route", "")>>,
      <<Seg("assets", ""), Seg("index", ".js")>>,
      <<Seg("missing", ".js")>>,
      <<Seg("ext-assets", ""), Seg("codicons", ""), Seg("codicon", ".css")>>,
      <<Seg("ext-assets", ""), Seg("does-not-exist", ".png")>>,
      <<Seg("audio", ""), Seg("ding", ".wav")>>,
      <<Seg("ext-assets", ""), DotDot, Seg("package", ".json")>>,
      <<Seg("ext-assets", ""), Seg("codicons", "")>>,
      <<Seg("data", ".bin")>>,
      <<Seg("ext-assets", ""), Seg("ICON", ".PNG")>>,
      <<Seg("audio", ""), Seg("missing", "")>>,
      <<Seg("audio", ""), Seg("missing", ".mp3")>>,
      <<Seg("ext-assets", ""), Seg("v1", ".0")>>,
      <<DotDot, DotDot, Seg("package", ".json")>>,
      <<Seg("a", ""), DotDot, Seg("assets", ""), Seg("index", ".js")>> }

\* The requests that probe the guard: every header, on a page and on a file.
AuthProbes ==
    { Request(m, FALSE, p, h) :
        m \in {"GET", "POST", "OPTIONS"},
        p \in { <<>>, <<Seg("assets", ""), Seg("index", ".js")>> },
        h \in AuthHeaders }

\* GET requests for every path, with and without a query string, with no
\* header and with the header of "s:s".
RouteProbes ==
    { [Request("GET", FALSE, p, h) EXCEPT !.query = q] :
        p \in UrlPaths, q \in BOOLEAN,
        h \in {EmptyString, BasicPrefix \o Base64Encode(<<115, Colon, 115>>)} }

\* A frame for the message handler and one for the toolbar handler.
RegistryFrames ==
    { Envelope(WebviewMessageType, JObj("{x:1}"), Absent),
      Envelope(ToolbarActionType, Absent, JStr("newTask")) }

\* The WebSocket upgrade requests, with every header.
UpgradeProbes == { Request("GET", TRUE, <<>>, h) : h \in AuthHeaders }

\* GET / with no header and with the header of "s:" followed by a password.
ReconfigureProbes ==
    { Request("GET", FALSE, <<>>, h) :
        h \in {EmptyString}
               \cup { BasicPrefix \o Base64Encode(<<115, Colon>> \o pw) : pw \in Passwords } }

\* A browser opening its WebSocket, with no Authorization header.
BrowserUpgrade == Request("GET", TRUE, <<>>, EmptyString)

(***************************************************************************)
(* The whole program                                                       *)
(***************************************************************************)
Next ==
    \/ \E p \in PortArgs, pw \in PasswordArgs : Configure(p, pw)
    \/ \E h \in Handlers \cup {NoHandler} : SetMessageHandler(h)
    \/ \E h \in Handlers \cup {NoHandler} : SetToolbarActionHandler(h)
    \/ Start
    \/ \E s \in ServerIds : ListenSucceeds(s)
    \/ \E s \in ServerIds : ListenFails(s)
    \/ \E i \in StopIds : StopCall(i)
    \/ \E s \in ServerIds : WssClosed(s)
    \/ \E s \in ServerIds : HttpClosed(s)
    \/ \E r \in AuthProbes \cup UpgradeProbes : RequestArrives(r)
    \/ HandleRequest
    \/ \E r \in UpgradeProbes : HandleUpgrade(r)
    \/ ResponseSent
    \/ \E c \in Conns : PeerCloses(c)
    \/ \E c \in Conns : OnClose(c)
    \/ \E c \in Conns : OnError(c)
    \/ \E c \in Conns, f \in Frames, sync \in {"returns", "throws"} : OnMessage(c, f, sync)
    \/ TurnEnds
    \/ \E t \in TaskIds, o \in {"resolved", "rejected"} : MessageHandlerSettles(t, o)
    \/ \E t \in TaskIds, o \in {"resolved", "rejected"} : ToolbarHandlerSettles(t, o)
    \/ \E m \in ExtensionMessages : BroadcastToClients(m)
    \/ RunScript
    \/ \E k \in SocketIds : OpenEvent(k)
    \/ \E k \in SocketIds : ErrorEvent(k)
    \/ \E k \in SocketIds : ConnectionEnds(k)
    \/ \E k \in SocketIds : CloseEvent(k)
    \/ TimerFires
    \/ \E a \in ToolbarActions : sendToolbarAction(a)
    \/ \E m \in WebviewMessages : postMessage(m)
    \/ \E v \in States : setState(v)
    \/ getState

Spec == Init /\ [][Next]_vars

(***************************************************************************)
(* The bootstrap page: the script, its sockets and timer, while the server *)
(* starts and stops                                                        *)
(***************************************************************************)
NextPage ==
    \/ RunScript
    \/ \E k \in SocketIds : OpenEvent(k)
    \/ \E k \in SocketIds : ErrorEvent(k)
    \/ \E k \in SocketIds : ConnectionEnds(k)
    \/ \E k \in SocketIds : CloseEvent(k)
    \/ TimerFires
    \/ \E a \in ToolbarActions : sendToolbarAction(a)
    \/ \E m \in WebviewMessages : postMessage(m)
    \/ Start
    \/ \E s \in ServerIds : ListenSucceeds(s)
    \/ \E i \in StopIds : StopCall(i)
    \/ \E s \in ServerIds : WssClosed(s)
    \/ \E s \in ServerIds : HttpClosed(s)

SpecPage == Init /\ [][NextPage]_vars

\* The browser runs the script of a loaded page, runs a timer that is due
\* and dispatches the events of a socket; nothing obliges the server, the
\* network or the user to act.
PageFairness ==
    /\ WF_vars(RunScript)
    /\ WF_vars(TimerFires)
    /\ WF_vars(\E k \in SocketIds : OpenEvent(k))
    /\ WF_vars(\E k \in SocketIds : ErrorEvent(k))
    /\ WF_vars(\E k \in SocketIds : CloseEvent(k))

SpecPageFair == Init /\ [][NextPage]_vars /\ PageFairness

(***************************************************************************)
(* The webview's state in the browser: setState and getState               *)
(***************************************************************************)
NextState ==
    \/ \E v \in States : setState(v)
    \/ getState

SpecState == Init /\ [][NextState]_vars

(***************************************************************************)
(* The access guard: configure, start, and requests with every header      *)
(***************************************************************************)
NextAuth ==
    \/ \E pw \in PasswordArgs : Configure(DEFAULT_WEB_SERVER_PORT, pw)
    \/ Start
    \/ \E s \in ServerIds : ListenSucceeds(s)
    \/ \E r \in AuthProbes : RequestArrives(r)
    \/ HandleRequest
    \/ ResponseSent

SpecAuth == Init /\ [][NextAuth]_vars

(***************************************************************************)
(* The upgrade: configure, start, and WebSocket upgrades with every header *)
(***************************************************************************)
NextUpgrade ==
    \/ \E pw \in PasswordArgs : Configure(DEFAULT_WEB_SERVER_PORT, pw)
    \/ Start
    \/ \E s \in ServerIds : ListenSucceeds(s)
    \/ \E r \in UpgradeProbes : HandleUpgrade(r)
    \/ \E c \in Conns : PeerCloses(c)
    \/ \E c \in Conns : OnClose(c)

SpecUpgrade == Init /\ [][NextUpgrade]_vars

(***************************************************************************)
(* The lifecycle: configure, start, stop, and the connections' events      *)
(***************************************************************************)
NextLifecycle ==
    \/ Start
    \/ \E s \in ServerIds : ListenSucceeds(s)
    \/ \E s \in ServerIds : ListenFails(s)
    \/ \E i \in StopIds : StopCall(i)
    \/ \E s \in ServerIds : WssClosed(s)
    \/ \E s \in ServerIds : HttpClosed(s)
    \/ HandleUpgrade(BrowserUpgrade)
    \/ \E c \in Conns : PeerCloses(c)
    \/ \E c \in Conns : OnClose(c)
    \/ \E c \in Conns : OnError(c)

SpecLifecycle == Init /\ [][NextLifecycle]_vars

(***************************************************************************)
(* The relay: a running server, its connections, frames and handlers       *)
(***************************************************************************)
NextRelay ==
    \/ ~InTurn /\ \E h \in Handlers \cup {NoHandler} : SetMessageHandler(h)
    \/ ~InTurn /\ \E h \in Handlers \cup {NoHandler} : SetToolbarActionHandler(h)
    \/ ~InTurn /\ HandleUpgrade(BrowserUpgrade)
    \/ ~InTurn /\ \E c \in Conns : PeerCloses(c)
    \/ ~InTurn /\ \E c \in Conns : OnClose(c)
    \/ ~InTurn /\ \E c \in Conns, f \in Frames, sync \in {"returns", "throws"} :
                      OnMessage(c, f, sync)
    \/ ~InTurn /\ \E t \in TaskIds, o \in {"resolved", "rejected"} :
                      MessageHandlerSettles(t, o)
    \/ ~InTurn /\ \E t \in TaskIds, o \in {"resolved", "rejected"} :
                      ToolbarHandlerSettles(t, o)
    \/ TurnEnds

SpecRelay == InitListening /\ [][NextRelay]_vars

(***************************************************************************)
(* The broadcast: a running server, its connections and broadcasts         *)
(***************************************************************************)
NextBroadcast ==
    \/ HandleUpgrade(BrowserUpgrade)
    \/ \E c \in Conns : PeerCloses(c)
    \/ \E c \in Conns : OnClose(c)
    \/ \E c \in Conns : OnError(c)
    \/ \E i \in StopIds : StopCall(i)
    \/ \E m \in ExtensionMessages : BroadcastToClients(m)

SpecBroadcast == InitListening /\ [][NextBroadcast]_vars


(***************************************************************************)
(* start: configure, start, stop and connections, with no peer events      *)
(***************************************************************************)
NextStart ==
    \/ Start
    \/ \E s \in ServerIds : ListenSucceeds(s)
    \/ \E s \in ServerIds : ListenFails(s)
    \/ \E i \in StopIds : StopCall(i)
    \/ \E s \in ServerIds : WssClosed(s)
    \/ \E s \in ServerIds : HttpClosed(s)
    \/ HandleUpgrade(BrowserUpgrade)
    \/ \E c \in Conns : OnClose(c)

SpecStart == Init /\ [][NextStart]_vars


(***************************************************************************)
(* The port: configure, start and stop                                     *)
(***************************************************************************)
NextPort ==
    \/ \E p \in LifecyclePorts : Configure(p, EmptyString)
    \/ Start
    \/ \E s \in ServerIds : ListenSucceeds(s)
    \/ \E s \in ServerIds : ListenFails(s)
    \/ \E i \in StopIds : StopCall(i)
    \/ \E s \in ServerIds : WssClosed(s)
    \/ \E s \in ServerIds : HttpClosed(s)

SpecPort == Init /\ [][NextPort]_vars


(***************************************************************************)
(* The routing: a running server, a password or none, and GET requests     *)
(***************************************************************************)
NextRoute ==
    \/ \E pw \in PasswordArgs : Configure(DEFAULT_WEB_SERVER_PORT, pw)
    \/ \E r \in RouteProbes : RequestArrives(r)
    \/ HandleRequest
    \/ ResponseSent

SpecRoute == InitListening /\ [][NextRoute]_vars

(***************************************************************************)
(* The configuration: configure with every port argument, and start        *)
(***************************************************************************)
NextConfigure ==
    \/ \E p \in PortArgs, pw \in PasswordArgs : Configure(p, pw)
    \/ Start
    \/ \E s \in ServerIds : ListenSucceeds(s)
    \/ \E s \in ServerIds : ListenFails(s)

SpecConfigure == Init /\ [][NextConfigure]_vars

(***************************************************************************)
(* The registry: every operation of the instance and every callback        *)
(***************************************************************************)
\* No start() call is waiting for its bind: the host awaits each start().
NoStartPending == \A s \in ServerIds : servers[s].state # "binding"

\* No message callback is suspended in an await.
NoTaskSuspended == \A t \in TaskIds : tasks[t].pc = "idle"

NextRegistry ==
    \/ ~InTurn /\ Configure(1024, EmptyString)
    \/ ~InTurn /\ \E h \in Handlers : SetMessageHandler(h)
    \/ ~InTurn /\ \E h \in Handlers : SetToolbarActionHandler(h)
    \/ ~InTurn /\ NoStartPending /\ Start
    \/ ~InTurn /\ \E s \in ServerIds : ListenSucceeds(s)
    \/ ~InTurn /\ \E i \in StopIds : StopCall(i)
    \/ ~InTurn /\ RequestArrives(Request("GET", FALSE, <<>>, EmptyString))
    \/ ~InTurn /\ HandleRequest
    \/ ~InTurn /\ ResponseSent
    \/ ~InTurn /\ HandleUpgrade(BrowserUpgrade)
    \/ ~InTurn /\ \E c \in Conns : PeerCloses(c)
    \/ ~InTurn /\ \E c \in Conns : OnClose(c)
    \/ ~InTurn /\ \E c \in Conns : OnError(c)
    \/ ~InTurn /\ NoTaskSuspended
               /\ \E c \in Conns, f \in RegistryFrames : OnMessage(c, f, "returns")
    \/ ~InTurn /\ \E t \in TaskIds : MessageHandlerSettles(t, "resolved")
    \/ ~InTurn /\ \E t \in TaskIds : ToolbarHandlerSettles(t, "resolved")
    \/ ~InTurn /\ BroadcastToClients(JObj("{foo:1}"))
    \/ TurnEnds

SpecRegistry == Init /\ [][NextRegistry]_vars

(***************************************************************************)
(* Reconfiguration: configure before and after start, and requests         *)
(***************************************************************************)
NextReconfigure ==
    \/ \E p \in LifecyclePorts, pw \in PasswordArgs : Configure(p, pw)
    \/ Start
    \/ \E s \in ServerIds : ListenSucceeds(s)
    \/ \E r \in ReconfigureProbes : RequestArrives(r)
    \/ HandleRequest
    \/ ResponseSent

SpecReconfigure == Init /\ [][NextReconfigure]_vars

(***************************************************************************)
(* The access guard on upgrades                                            *)
(***************************************************************************)
\* C1: with a password configured, a connection is in the registry only if
\* its upgrade request passed the access guard, that is, carried the
\* configured password.
RegisteredOnlyIfGuarded ==
    password # EmptyString => \A c \in clients : conn[c].guarded

(***************************************************************************)
(* The access guard on requests                                            *)
(***************************************************************************)
\* The text after the first colon of t, or all of t when it has no colon,
\* is pw.
SuffixIs(t, pw) ==
    \/ \E k \in 1..Len(t) :
         /\ t[k] = Colon
         /\ \A j \in 1..(k - 1) : t[j] # Colon
         /\ SubSeq(t, k + 1, Len(t)) = pw
    \/ /\ \A k \in 1..Len(t) : t[k] # Colon
       /\ t = pw

\* The header is a Basic header of credentials whose password part is pw.
CarriesPassword(h, pw) ==
    \E t \in Credentials : h = BasicPrefix \o Base64Encode(t) /\ SuffixIs(t, pw)

\* C2: a request that is not OPTIONS passes the guard when no password is
\* configured; with a password it passes if and only if it carries a Basic
\* header whose text after the first colon (the whole text when there is no
\* colon) is the password; a request that does not pass is answered 401
\* with WWW-Authenticate and no file is read for it.
GuardAnswersAsDocumented ==
    [][(req # NoReq /\ res = NoRes /\ res' # NoRes /\ req.method # "OPTIONS") =>
          /\ password = EmptyString => res'.status # 401
          /\ password # EmptyString =>
                (res'.status # 401 <=> CarriesPassword(req.auth, password))
          /\ res'.status = 401 =>
                (res'.wwwAuth /\ res'.file = <<>> /\ res'.body = "Unauthorized")
          /\ res'.status # 401 => ~res'.wwwAuth]_vars

\* With the password "s", a GET carrying base64("s:s") is answered 200.
GuardLetsPasswordPass ==
    /\ password = <<115>>
    /\ req.method = "GET"
    /\ req.auth = BasicPrefix \o Base64Encode(<<115, Colon, 115>>)
    /\ res.status = 200

(***************************************************************************)
(* start() on a running server                                             *)
(***************************************************************************)
\* C3: while the server is listening no listener and no WebSocket layer is
\* created, and a start() call changes neither the listener the instance
\* references, nor the WebSocket layer, nor the registry.
StartWhileListeningIsNoOp ==
    [][IsRunning =>
          /\ \A s \in ServerIds :
                servers[s].state = "none" => servers'[s].state = "none"
          /\ Start => UNCHANGED <<httpServer, wss, servers, clients, conn>>]_vars

\* The first listener is running with a connection in the registry, and no
\* second listener exists.
RunningWithConnection ==
    /\ IsRunning
    /\ httpServer = 1
    /\ clients # {}
    /\ servers[2].state = "none"

(***************************************************************************)
(* stop()                                                                  *)
(***************************************************************************)
\* C4: when a stop() call made on a running server completes, the registry
\* is empty and isRunning() is false.
StopLeavesNothingRunning ==
    [][\A i \in StopIds :
          (stops[i].pc = "awaitHttp" /\ stops'[i].pc = "resolved") =>
              (clients' = {} /\ ~IsRunning')]_vars

\* C5: every stop() call resolves or rejects: none is left waiting for a
\* callback that nothing will ever call.
StopNeverStalls == \A i \in StopIds : stops[i].pc # "stalled"

(***************************************************************************)
(* A bind failure                                                          *)
(***************************************************************************)
\* C6: when the bind of a start() call fails, the call rejects with the
\* bind error and isRunning() is false afterwards.
BindFailureLeavesNotRunning ==
    [][\A s \in ServerIds :
          (servers[s].state = "binding" /\ servers'[s].state = "failed") =>
              /\ servers'[s].start = "rejected"
              /\ servers'[s].err = "EADDRINUSE"
              /\ ~IsRunning']_vars

(***************************************************************************)
(* The dispatch of inbound frames                                          *)
(***************************************************************************)
\* C7 as amended: a frame whose envelope has type "webview-message" and a
\* truthy payload, with a message handler registered, invokes the message
\* handler exactly once with that payload; a webview-message frame whose
\* payload is absent or falsy, and a frame of any other type, never invoke it.
TruthyPayloadInvokesOnce ==
    InTurn =>
        LET f == lastFrame.frame
        IN /\ (/\ f.json = "object"
               /\ f.type = WebviewMessageType
               /\ Truthy(f.payload)
               /\ messageHandler # NoHandler)
                  => (lastFrame.msgCalls = 1 /\ lastFrame.msgArg = f.payload)
           /\ (f.type # WebviewMessageType \/ ~Truthy(f.payload))
                  => lastFrame.msgCalls = 0

\* C7 as stated: a frame of type "webview-message" in which a payload field
\* is present, with a message handler registered, invokes the handler
\* exactly once with that payload; a frame of another type never does.
PresentPayloadInvokesOnce ==
    InTurn =>
        LET f == lastFrame.frame
        IN /\ (/\ f.json = "object"
               /\ f.type = WebviewMessageType
               /\ f.payload # Absent
               /\ messageHandler # NoHandler)
                  => (lastFrame.msgCalls = 1 /\ lastFrame.msgArg = f.payload)
           /\ f.type # WebviewMessageType => lastFrame.msgCalls = 0

\* The frame {"type":"webview-message","payload":{x:1}} has invoked the handler.
PayloadDelivered ==
    /\ InTurn
    /\ lastFrame.frame = Envelope(WebviewMessageType, JObj("{x:1}"), Absent)
    /\ lastFrame.msgCalls = 1
    /\ lastFrame.msgArg = JObj("{x:1}")

\* C8: a step of the message callback, a caught parse failure, handler
\* exception or handler rejection included, closes no connection and
\* removes none from the registry; and a valid frame that arrives on a
\* connection after a failure on it finds the connection open and
\* registered and is dispatched to its handler.
FailureIsContained ==
    /\ [][(lastFrame' # lastFrame \/ tasks' # tasks \/ lastFailure' # lastFailure)
             => UNCHANGED <<conn, clients>>]_vars
    /\ [](InTurn /\ lastFrame.afterFailure =>
             LET f == lastFrame.frame
             IN /\ IsOpen(lastFrame.conn)
                /\ lastFrame.conn \in clients
                /\ (/\ f.type = WebviewMessageType
                    /\ Truthy(f.payload)
                    /\ messageHandler # NoHandler) => lastFrame.msgCalls = 1
                /\ (/\ f.type = ToolbarActionType
                    /\ Truthy(f.action)
                    /\ toolbarActionHandler # NoHandler) => lastFrame.toolCalls = 1)

\* After a failure on a connection, a later frame on it has reached the
\* message handler.
DispatchedAfterFailure ==
    /\ InTurn
    /\ lastFrame.afterFailure
    /\ ~lastFrame.caught
    /\ lastFrame.msgCalls = 1

(***************************************************************************)
(* The broadcast                                                           *)
(***************************************************************************)
\* The text of {type: "extension-message", payload: message}.
SerializedEnvelope(message) ==
    <<"{", "\"type\":", "\"extension-message\"", ",", "\"payload\":">>
    \o StringifyValue(message) \o <<"}">>

\* C9: a broadcast writes the serialized envelope of its message exactly
\* once to every connection that is in the registry and open when it is
\* called, and nothing to any other connection; with an empty registry it
\* writes nothing.
BroadcastReachesOpenRegistered ==
    [][lastBroadcast' # lastBroadcast =>
          /\ lastBroadcast'.called
          /\ \A c \in Conns :
                lastBroadcast'.writes[c] =
                    IF c \in clients /\ conn[c].state = "open"
                    THEN <<SerializedEnvelope(lastBroadcast'.message)>>
                    ELSE <<>>
          /\ clients = {} => \A c \in Conns : lastBroadcast'.writes[c] = <<>>]_vars

\* A broadcast has written to an open connection and skipped a registered
\* connection that is no longer open.
BroadcastSkippedClosing ==
    /\ lastBroadcast.called
    /\ \E c \in clients : IsOpen(c) /\ Len(lastBroadcast.writes[c]) = 1
    /\ \E c \in clients : ~IsOpen(c) /\ lastBroadcast.writes[c] = <<>>

(***************************************************************************)
(* The port                                                                *)
(***************************************************************************)
\* C10 as amended: configure(p, pw) with p in 1024..65535 makes getPort()
\* return p; a start() that creates a listener, which it does when the
\* instance is not running, binds it on the port getPort() returns and
\* makes it the listener of the instance; and the start, its bind included,
\* changes neither getPort() nor the port of a listener.
StartBindsConfiguredPort ==
    [][/\ \A p \in LifecyclePorts :
             (p >= 1024 /\ p <= MaxTcpPort /\ Configure(p, EmptyString))
                 => GetPort' = p
       /\ \A s \in ServerIds :
             (servers[s].state = "none" /\ servers'[s].state # "none") =>
                 (~IsRunning /\ servers'[s].port = GetPort /\ httpServer' = s)
       /\ servers' # servers => GetPort' = GetPort
       /\ \A s \in ServerIds :
             servers[s].state # "none" => servers'[s].port = servers[s].port]_vars

\* C10 as stated: after configure(p, pw) and start() the listener is bound
\* on p, the port getPort() returns. On a running instance start() changes
\* nothing, so the listener of a running instance is on the configured port.
RunningOnConfiguredPort ==
    IsRunning => servers[httpServer].port = GetPort

\* After configure(65535, ""), start() and its bind, the instance listens
\* on 65535 and getPort() returns 65535.
ListeningOnConfiguredPort ==
    /\ IsRunning
    /\ GetPort = MaxTcpPort
    /\ servers[httpServer].port = MaxTcpPort

(***************************************************************************)
(* configure on a running server                                           *)
(***************************************************************************)
\* C11: a configure call made while the server is running changes neither
\* the port the listener is bound on nor the answer the access guard gives
\* to a request: the password enforced stays the one in force at the start.
ConfigureLeavesRunningInstance ==
    [][(IsRunning /\ configVars' # configVars) =>
          /\ servers' = servers
          /\ \A r \in ReconfigureProbes :
                CheckBasicAuth(r.auth)' = CheckBasicAuth(r.auth)]_vars

(***************************************************************************)
(* The routing of requests                                                 *)
(***************************************************************************)
\* The request listener answers a GET request that passes the access guard.
AnswersAuthenticatedGet ==
    /\ req # NoReq
    /\ res = NoRes
    /\ res' # NoRes
    /\ req.method = "GET"
    /\ CheckBasicAuth(req.auth)

\* The path is "/" or its last segment has no extension.
Extensionless(p) == p = <<>> \/ ExtName(p) = ""

\* The path is /ext-assets/<rest> or /audio/<rest>.
InAssetSubtree(p) ==
    Len(p) >= 2 /\ (p[1] = Seg("ext-assets", "") \/ p[1] = Seg("audio", ""))

\* C12 as stated: every authenticated GET request whose path is "/" or has
\* no file extension is answered with the bootstrap page and status 200.
ExtensionlessGetsBootstrap ==
    [][(AnswersAuthenticatedGet /\ Extensionless(req.path)) =>
          (res'.status = 200 /\ res'.body = "bootstrap")]_vars

\* C12 as amended: every authenticated GET request whose path is "/" or has
\* no file extension, and is not under /ext-assets/ or /audio/, is answered
\* with the bootstrap page, status 200 and Content-Type text/html.
ExtensionlessOutsideAssetsGetsBootstrap ==
    [][(AnswersAuthenticatedGet /\ Extensionless(req.path)
           /\ ~InAssetSubtree(req.path)) =>
          (res'.status = 200 /\ res'.body = "bootstrap"
              /\ res'.contentType = "text/html")]_vars

\* With a password configured, GET /nonexistent-route?query carrying the
\* password has been answered with the bootstrap page.
RouteAnsweredWithBootstrap ==
    /\ password # EmptyString
    /\ req.method = "GET"
    /\ req.path = <<Seg("nonexistent-route", "")>>
    /\ req.query
    /\ res.status = 200
    /\ res.body = "bootstrap"

\* The file the routing rule resolves for a path under /ext-assets/ or
\* /audio/ or with an extension.
ResolvedFile(p) ==
    IF Len(p) >= 2 /\ p[1] = Seg("ext-assets", "") THEN PathJoin(AssetsDir, Tail(p))
    ELSE IF Len(p) >= 2 /\ p[1] = Seg("audio", "") THEN PathJoin(AudioDir, Tail(p))
    ELSE PathJoin(BuildDir, p)

\* The extensions of the MIME table.
MimeExtensions ==
    {".html", ".js", ".mjs", ".css", ".json", ".png", ".jpg", ".jpeg", ".gif", ".svg",
     ".ico", ".woff", ".woff2", ".ttf", ".eot", ".otf", ".wasm", ".mp3", ".wav", ".ogg"}

\* The response serves the file f with the Content-Type of the MIME table.
ServesWithMimeType(r, f) ==
    /\ r.status = 200
    /\ r.file = f
    /\ r.contentType = MimeType(ToLowerCase(ExtName(f)))
    /\ ToLowerCase(ExtName(f)) \notin MimeExtensions =>
           r.contentType = "application/octet-stream"

\* The answer to a request under /ext-assets/ or /audio/ whose file is
\* absent is 404, and to any other request with an extension whose file is
\* absent the bootstrap page.
AbsentIsAnswered(p, r) ==
    ~ExistsSync(ResolvedFile(p)) =>
        IF InAssetSubtree(p)
        THEN r.status = 404
        ELSE r.status = 200 /\ r.body = "bootstrap"

\* C13 as stated: when the resolved file is absent, a request under
\* /ext-assets/ or /audio/ is answered 404 and any other request with an
\* extension is answered with the bootstrap page; when the resolved file
\* exists it is served with status 200 and the Content-Type of the MIME
\* table, application/octet-stream for an unknown extension.
ExistingFileIsServed ==
    [][(AnswersAuthenticatedGet
           /\ (InAssetSubtree(req.path) \/ ~Extensionless(req.path))) =>
          /\ AbsentIsAnswered(req.path, res')
          /\ ExistsSync(ResolvedFile(req.path)) =>
                ServesWithMimeType(res', ResolvedFile(req.path))]_vars

\* C13 as amended: as above for an absent file; a resolved file that exists
\* and can be read is served with status 200 and the Content-Type of the
\* MIME table; one that exists and cannot be read, a directory, is answered
\* 500.
ReadableFileIsServed ==
    [][(AnswersAuthenticatedGet
           /\ (InAssetSubtree(req.path) \/ ~Extensionless(req.path))) =>
          /\ AbsentIsAnswered(req.path, res')
          /\ ResolvedFile(req.path) \in RegularFiles =>
                ServesWithMimeType(res', ResolvedFile(req.path))
          /\ ResolvedFile(req.path) \in Directories =>
                (res'.status = 500 /\ res'.file = <<>>)]_vars

\* GET /ext-assets/does-not-exist.png has been answered 404.
AbsentAssetAnswered404 ==
    /\ req.method = "GET"
    /\ req.path = <<Seg("ext-assets", ""), Seg("does-not-exist", ".png")>>
    /\ res.status = 404

(***************************************************************************)
(* The stored port                                                         *)
(***************************************************************************)
\* C14: after any sequence of configure calls with integer port arguments
\* the port getPort() returns is an integer in 1..65535, an argument that
\* is not a valid port having been replaced by the default 30000.
StoredPortIsValid == GetPort >= 1 /\ GetPort <= MaxTcpPort

(***************************************************************************)
(* The order of the frames of a connection                                 *)
(***************************************************************************)
\* C15: when a handler is invoked for a frame of a connection, the handling
\* of every earlier frame of that connection has finished: no message
\* callback of the connection is still suspended in its awaited handler call.
EarlierFrameHasFinished ==
    [][\A c \in Conns :
          (/\ lastFrame' # lastFrame
           /\ lastFrame'.conn = c
           /\ lastFrame'.msgCalls + lastFrame'.toolCalls > 0)
              => \A t \in TaskIds : tasks[t].pc = "idle" \/ tasks[t].conn # c]_vars

(***************************************************************************)
(* The connection registry                                                 *)
(***************************************************************************)
\* The socket has closed, the instance did not close it itself, and neither
\* its close event nor its error event has been delivered.
AssumedOpen(c) == conn[c].state = "closing" /\ ~conn[c].notified

\* C16: in every reachable state a connection is in the registry if and
\* only if its socket is open, or is assumed open: it has closed and its
\* close or error event has not yet been delivered.
RegistryHoldsLiveSockets ==
    \A c \in Conns : c \in clients <=> (IsOpen(c) \/ AssumedOpen(c))

\* One connection is registered though its socket has closed, its close
\* event pending, and another has left the registry ahead of its close event.
RegisteredPendingClose ==
    /\ \E c \in clients : AssumedOpen(c)
    /\ \E c \in Conns : c \notin clients /\ conn[c].state = "closing"

\* The close event of the connection has been delivered, or its error event
\* (or stop() has terminated it).
EventDelivered(c) == conn[c].state = "closed" \/ conn[c].notified

\* C17: a connection whose close or error event has been delivered is not
\* in the registry; only a new socket enters the registry, so it never
\* re-enters; no broadcast writes to it; and a close or error event for a
\* connection that is already absent from the registry (close after error,
\* close after stop() cleared the registry) leaves the registry unchanged.
DeliveredEventRemovesForGood ==
    /\ [](\A c \in Conns : EventDelivered(c) => c \notin clients)
    /\ [][\A c \in Conns :
             /\ (c \in clients' /\ c \notin clients) => conn[c].state = "none"
             /\ (lastBroadcast' # lastBroadcast /\ EventDelivered(c))
                    => lastBroadcast'.writes[c] = <<>>
             /\ (c \notin clients /\ (OnClose(c) \/ OnError(c)))
                    => clients' = clients]_vars

\* A broadcast has written to a registered connection and not to one whose
\* close event was delivered after stop() or its error event had removed it.
BroadcastAfterCloseDelivered ==
    /\ lastBroadcast.called
    /\ \E c \in Conns : conn[c].state = "closed" /\ lastBroadcast.writes[c] = <<>>
    /\ \E c \in clients : Len(lastBroadcast.writes[c]) = 1

\* The step is one of the three lifecycle hooks: the connection callback
\* adds a new socket, the close or the error callback removes its socket.
LifecycleHook ==
    \/ \E c \in Conns : conn[c].state = "none" /\ clients' = clients \cup {c}
    \/ \E c \in Conns : OnClose(c) /\ clients' = clients \ {c}
    \/ \E c \in Conns : OnError(c) /\ clients' = clients \ {c}

\* The step is configure, a handler registration, start(), the dispatch of
\* an inbound frame or a broadcast.
OtherOperation ==
    \/ configVars' # configVars
    \/ handlerVars' # handlerVars
    \/ Start
    \/ relayVars' # relayVars
    \/ lastBroadcast' # lastBroadcast

\* C18 as stated: the membership of the registry changes only in the three
\* lifecycle hooks; every other operation, broadcastToClients on a
\* connection that is not open included, leaves it unchanged.
OnlyHooksMutateRegistry ==
    [][/\ clients' # clients => LifecycleHook
       /\ OtherOperation => clients' = clients]_vars

\* C18 as amended: the membership of the registry changes only in the three
\* lifecycle hooks and in stop(), which empties it; configure, handler
\* registration, start(), inbound frame dispatch and broadcastToClients,
\* on a connection that is not open included, leave it unchanged.
OnlyHooksAndStopMutateRegistry ==
    [][/\ clients' # clients =>
             (LifecycleHook \/ (clients' = {} /\ \E i \in StopIds : StopCall(i)))
       /\ OtherOperation => clients' = clients]_vars

\* After configure and a handler registration, a broadcast has found a
\* registered connection not open, and the connection is still registered.
NotOpenStillRegistered ==
    /\ port = 1024
    /\ messageHandler # NoHandler
    /\ lastBroadcast.called
    /\ \E c \in clients : ~IsOpen(c) /\ lastBroadcast.writes[c] = <<>>

(***************************************************************************)
(* The dispatch of toolbar actions                                         *)
(***************************************************************************)
\* C19: with a toolbar handler registered, a frame of type "toolbar-action"
\* whose action field is a string invokes the toolbar handler exactly once
\* with that action; a frame of another type, and a frame whose action
\* field is missing or is not a string, never invokes it.
StringActionInvokesOnce ==
    InTurn =>
        LET f == lastFrame.frame
        IN /\ (/\ f.json = "object"
               /\ f.type = ToolbarActionType
               /\ f.action.k = "str"
               /\ toolbarActionHandler # NoHandler)
                  => (lastFrame.toolCalls = 1 /\ lastFrame.toolArg = f.action)
           /\ (f.type # ToolbarActionType \/ f.action.k # "str")
                  => lastFrame.toolCalls = 0

(***************************************************************************)
(* The roots of the files served                                           *)
(***************************************************************************)
\* The root the routing rule selects for a path.
SelectedRoot(p) ==
    IF Len(p) >= 2 /\ p[1] = Seg("ext-assets", "") THEN AssetsDir
    ELSE IF Len(p) >= 2 /\ p[1] = Seg("audio", "") THEN AudioDir
    ELSE BuildDir

\* The file f lies under the directory root.
LiesUnder(f, root) == Len(f) > Len(root) /\ SubSeq(f, 1, Len(root)) = root

\* C20: the file read for a request lies under the root the routing rule
\* selects for its path: the extension-assets root for /ext-assets/<rest>,
\* the audio root for /audio/<rest>, the build-output root otherwise; no
\* path, with ".." segments or without, makes the server read a file
\* outside these roots.
FileReadLiesUnderSelectedRoot ==
    [][(req # NoReq /\ res = NoRes /\ res' # NoRes /\ res'.file # <<>>) =>
          LiesUnder(res'.file, SelectedRoot(req.path))]_vars


\* C21: the bootstrap page's script has at any time at most one WebSocket
\* that is connecting or open, whatever the order of open, close, error
\* and timer events; a toolbar action and a postMessage create no socket
\* and write to the socket the script's ws holds, which is that one.
OneSharedSocket ==
    /\ [](Cardinality(LiveSockets) <= 1)
    /\ [][lastSend' # lastSend =>
             /\ sock' = sock
             /\ ws' = ws
             /\ lastSend'.sock # 0 =>
                    (lastSend'.sock = ws /\ LiveSockets = {ws})]_vars

SentAfterReconnect ==
    /\ reconnectTimer = "fired"
    /\ lastSend.by = "postMessage"
    /\ lastSend.sock # 0
    /\ lastSend.sock = ws
    /\ sock[ws] = "open"

\* C22: after a close event of the socket the timer leads to a new
\* connection attempt, an attempt that failed leads to another attempt,
\* and if the server accepts connections from some time on the page is
\* connected again and again.
CloseLeadsToReconnect ==
    /\ (reconnectTimer = "pending") ~> (\E k \in SocketIds : sock[k] = "connecting")
    /\ (\E k \in SocketIds : sock[k] \in {"closing", "closed"})
           ~> (\E k \in SocketIds : sock[k] = "connecting")
    /\ (<>[]Accepting) => []<>CanSend

ConnectedAfterFailedAttempt ==
    /\ reconnectTimer = "fired"
    /\ statusEl = "Connected"
    /\ CanSend
    /\ lastSend = NoSend


\* C23: in a browser getState returns the state handed to the latest
\* setState call, undefined included, and returns undefined without an
\* error when setState was never called; setState returns its argument.
GetStateReturnsLatestState ==
    /\ lastState.op = "getState" =>
           /\ ~lastState.threw
           /\ lastState.returned = IF lastState.set THEN lastState.state ELSE Absent
    /\ lastState.op = "setState" => lastState.setReturned = lastState.state


\* The listeners the instance created that are binding or bound.
BoundOrBinding == { s \in ServerIds : servers[s].state \in {"binding", "listening"} }

\* C24: under every interleaving of start() and stop() calls, overlapping
\* ones included, at most one HTTP listener of the instance is binding or
\* bound, and every listener it created is the one it references or has
\* been closed (or never bound, or is being closed).
AtMostOneListener ==
    /\ Cardinality(BoundOrBinding) <= 1
    /\ \A s \in ServerIds :
           servers[s].state # "none" =>
               (s = httpServer \/ servers[s].state \in {"closing", "closed", "failed"})

=============================================================================
